---------------------------- MODULE Spec2Model ----------------------------
(***************************************************************************)
(* Model of src/request_logger.py: the request-logging middleware of       *)
(* gcli2api.  The module classifies a request by its path (API_PATTERNS)   *)
(* and by its User-Agent (extract_client_name), writes one condensed line  *)
(* through log.info for a classified request and forwards the request to   *)
(* the next handler.                                                       *)
(*                                                                         *)
(* A Python str is modelled as a sequence of one-character strings, so     *)
(* that regular-expression matching, slicing and concatenation are         *)
(* computed character by character.  An ASCII character is written as      *)
(* itself and any other character by its code point: "U+0663" is ARABIC-   *)
(* INDIC DIGIT THREE, and the two emoji of the log line are "U+1F680"      *)
(* (rocket) and "U+2728" (sparkles).                                       *)
(***************************************************************************)
EXTENDS Naturals, Sequences, FiniteSets, TLC

VARIABLES
    API_PATTERNS,   \* the module-level rule table (a mutable Python list)
    calls,          \* the dispatch calls: request id -> the call's progress
    log_sink,       \* the messages log.info received, in arrival order
    arg,            \* the direct call of a module function in progress
    ret,            \* the direct call that has just returned, with its result
    memo,           \* the first completed direct call and its result
    ncalls,         \* the number of direct calls made
    client_patterns_local
                    \* the local list client_patterns of the latest call of
                    \* extract_client_name that built one, as the call left it

vars == <<API_PATTERNS, calls, log_sink, arg, ret, memo, ncalls,
          client_patterns_local>>

----------------------------------------------------------------------------
(* Characters and the character classes of the regular expressions.        *)

\* The characters that re.IGNORECASE, on a str pattern, lets match a letter
\* of a-z, each with that letter: A-Z, and the four characters the regex
\* engine folds beside them: U+0130 and U+0131 (dotted I, dotless i) with
\* "i", U+017F (long s) with "s", U+212A (Kelvin sign) with "k".
ToLower ==
    ("A" :> "a") @@ ("B" :> "b") @@ ("C" :> "c") @@ ("D" :> "d") @@
    ("E" :> "e") @@ ("F" :> "f") @@ ("G" :> "g") @@ ("H" :> "h") @@
    ("I" :> "i") @@ ("J" :> "j") @@ ("K" :> "k") @@ ("L" :> "l") @@
    ("M" :> "m") @@ ("N" :> "n") @@ ("O" :> "o") @@ ("P" :> "p") @@
    ("Q" :> "q") @@ ("R" :> "r") @@ ("S" :> "s") @@ ("T" :> "t") @@
    ("U" :> "u") @@ ("V" :> "v") @@ ("W" :> "w") @@ ("X" :> "x") @@
    ("Y" :> "y") @@ ("Z" :> "z") @@
    ("U+0130" :> "i") @@ ("U+0131" :> "i") @@ ("U+017F" :> "s") @@
    ("U+212A" :> "k")

\* the characters re.IGNORECASE folds to a letter of a-z
CaseFolded == DOMAIN ToLower

\* A-Z
UpperCase == {
    "A", "B", "C", "D", "E", "F", "G", "H", "I", "J", "K", "L", "M",
    "N", "O", "P", "Q", "R", "S", "T", "U", "V", "W", "X", "Y", "Z" }

\* a-z
LowerCase == {ToLower[u] : u \in UpperCase}

\* \d of a str pattern: every Unicode decimal digit (category Nd), the ten
\* ASCII digits and the digits of the other scripts
Digits == {"0", "1", "2", "3", "4", "5", "6", "7", "8", "9"} \cup {
    "U+0660", "U+0661", "U+0662", "U+0663", "U+0664", "U+0665",
    "U+0666", "U+0667", "U+0668", "U+0669", "U+06F0", "U+06F1",
    "U+06F2", "U+06F3", "U+06F4", "U+06F5", "U+06F6", "U+06F7",
    "U+06F8", "U+06F9", "U+07C0", "U+07C1", "U+07C2", "U+07C3",
    "U+07C4", "U+07C5", "U+07C6", "U+07C7", "U+07C8", "U+07C9",
    "U+0966", "U+0967", "U+0968", "U+0969", "U+096A", "U+096B",
    "U+096C", "U+096D", "U+096E", "U+096F", "U+09E6", "U+09E7",
    "U+09E8", "U+09E9", "U+09EA", "U+09EB", "U+09EC", "U+09ED",
    "U+09EE", "U+09EF", "U+0A66", "U+0A67", "U+0A68", "U+0A69",
    "U+0A6A", "U+0A6B", "U+0A6C", "U+0A6D", "U+0A6E", "U+0A6F",
    "U+0AE6", "U+0AE7", "U+0AE8", "U+0AE9", "U+0AEA", "U+0AEB",
    "U+0AEC", "U+0AED", "U+0AEE", "U+0AEF", "U+0B66", "U+0B67",
    "U+0B68", "U+0B69", "U+0B6A", "U+0B6B", "U+0B6C", "U+0B6D",
    "U+0B6E", "U+0B6F", "U+0BE6", "U+0BE7", "U+0BE8", "U+0BE9",
    "U+0BEA", "U+0BEB", "U+0BEC", "U+0BED", "U+0BEE", "U+0BEF",
    "U+0C66", "U+0C67", "U+0C68", "U+0C69", "U+0C6A", "U+0C6B",
    "U+0C6C", "U+0C6D", "U+0C6E", "U+0C6F", "U+0CE6", "U+0CE7",
    "U+0CE8", "U+0CE9", "U+0CEA", "U+0CEB", "U+0CEC", "U+0CED",
    "U+0CEE", "U+0CEF", "U+0D66", "U+0D67", "U+0D68", "U+0D69",
    "U+0D6A", "U+0D6B", "U+0D6C", "U+0D6D", "U+0D6E", "U+0D6F",
    "U+0DE6", "U+0DE7", "U+0DE8", "U+0DE9", "U+0DEA", "U+0DEB",
    "U+0DEC", "U+0DED", "U+0DEE", "U+0DEF", "U+0E50", "U+0E51",
    "U+0E52", "U+0E53", "U+0E54", "U+0E55", "U+0E56", "U+0E57",
    "U+0E58", "U+0E59", "U+0ED0", "U+0ED1", "U+0ED2", "U+0ED3",
    "U+0ED4", "U+0ED5", "U+0ED6", "U+0ED7", "U+0ED8", "U+0ED9",
    "U+0F20", "U+0F21", "U+0F22", "U+0F23", "U+0F24", "U+0F25",
    "U+0F26", "U+0F27", "U+0F28", "U+0F29", "U+1040", "U+1041",
    "U+1042", "U+1043", "U+1044", "U+1045", "U+1046", "U+1047",
    "U+1048", "U+1049", "U+1090", "U+1091", "U+1092", "U+1093",
    "U+1094", "U+1095", "U+1096", "U+1097", "U+1098", "U+1099",
    "U+17E0", "U+17E1", "U+17E2", "U+17E3", "U+17E4", "U+17E5",
    "U+17E6", "U+17E7", "U+17E8", "U+17E9", "U+1810", "U+1811",
    "U+1812", "U+1813", "U+1814", "U+1815", "U+1816", "U+1817",
    "U+1818", "U+1819", "U+1946", "U+1947", "U+1948", "U+1949",
    "U+194A", "U+194B", "U+194C", "U+194D", "U+194E", "U+194F",
    "U+19D0", "U+19D1", "U+19D2", "U+19D3", "U+19D4", "U+19D5",
    "U+19D6", "U+19D7", "U+19D8", "U+19D9", "U+1A80", "U+1A81",
    "U+1A82", "U+1A83", "U+1A84", "U+1A85", "U+1A86", "U+1A87",
    "U+1A88", "U+1A89", "U+1A90", "U+1A91", "U+1A92", "U+1A93",
    "U+1A94", "U+1A95", "U+1A96", "U+1A97", "U+1A98", "U+1A99",
    "U+1B50", "U+1B51", "U+1B52", "U+1B53", "U+1B54", "U+1B55",
    "U+1B56", "U+1B57", "U+1B58", "U+1B59", "U+1BB0", "U+1BB1",
    "U+1BB2", "U+1BB3", "U+1BB4", "U+1BB5", "U+1BB6", "U+1BB7",
    "U+1BB8", "U+1BB9", "U+1C40", "U+1C41", "U+1C42", "U+1C43",
    "U+1C44", "U+1C45", "U+1C46", "U+1C47", "U+1C48", "U+1C49",
    "U+1C50", "U+1C51", "U+1C52", "U+1C53", "U+1C54", "U+1C55",
    "U+1C56", "U+1C57", "U+1C58", "U+1C59", "U+A620", "U+A621",
    "U+A622", "U+A623", "U+A624", "U+A625", "U+A626", "U+A627",
    "U+A628", "U+A629", "U+A8D0", "U+A8D1", "U+A8D2", "U+A8D3",
    "U+A8D4", "U+A8D5", "U+A8D6", "U+A8D7", "U+A8D8", "U+A8D9",
    "U+A900", "U+A901", "U+A902", "U+A903", "U+A904", "U+A905",
    "U+A906", "U+A907", "U+A908", "U+A909", "U+A9D0", "U+A9D1",
    "U+A9D2", "U+A9D3", "U+A9D4", "U+A9D5", "U+A9D6", "U+A9D7",
    "U+A9D8", "U+A9D9", "U+A9F0", "U+A9F1", "U+A9F2", "U+A9F3",
    "U+A9F4", "U+A9F5", "U+A9F6", "U+A9F7", "U+A9F8", "U+A9F9",
    "U+AA50", "U+AA51", "U+AA52", "U+AA53", "U+AA54", "U+AA55",
    "U+AA56", "U+AA57", "U+AA58", "U+AA59", "U+ABF0", "U+ABF1",
    "U+ABF2", "U+ABF3", "U+ABF4", "U+ABF5", "U+ABF6", "U+ABF7",
    "U+ABF8", "U+ABF9", "U+FF10", "U+FF11", "U+FF12", "U+FF13",
    "U+FF14", "U+FF15", "U+FF16", "U+FF17", "U+FF18", "U+FF19",
    "U+104A0", "U+104A1", "U+104A2", "U+104A3", "U+104A4", "U+104A5",
    "U+104A6", "U+104A7", "U+104A8", "U+104A9", "U+10D30", "U+10D31",
    "U+10D32", "U+10D33", "U+10D34", "U+10D35", "U+10D36", "U+10D37",
    "U+10D38", "U+10D39", "U+11066", "U+11067", "U+11068", "U+11069",
    "U+1106A", "U+1106B", "U+1106C", "U+1106D", "U+1106E", "U+1106F",
    "U+110F0", "U+110F1", "U+110F2", "U+110F3", "U+110F4", "U+110F5",
    "U+110F6", "U+110F7", "U+110F8", "U+110F9", "U+11136", "U+11137",
    "U+11138", "U+11139", "U+1113A", "U+1113B", "U+1113C", "U+1113D",
    "U+1113E", "U+1113F", "U+111D0", "U+111D1", "U+111D2", "U+111D3",
    "U+111D4", "U+111D5", "U+111D6", "U+111D7", "U+111D8", "U+111D9",
    "U+112F0", "U+112F1", "U+112F2", "U+112F3", "U+112F4", "U+112F5",
    "U+112F6", "U+112F7", "U+112F8", "U+112F9", "U+11450", "U+11451",
    "U+11452", "U+11453", "U+11454", "U+11455", "U+11456", "U+11457",
    "U+11458", "U+11459", "U+114D0", "U+114D1", "U+114D2", "U+114D3",
    "U+114D4", "U+114D5", "U+114D6", "U+114D7", "U+114D8", "U+114D9",
    "U+11650", "U+11651", "U+11652", "U+11653", "U+11654", "U+11655",
    "U+11656", "U+11657", "U+11658", "U+11659", "U+116C0", "U+116C1",
    "U+116C2", "U+116C3", "U+116C4", "U+116C5", "U+116C6", "U+116C7",
    "U+116C8", "U+116C9", "U+11730", "U+11731", "U+11732", "U+11733",
    "U+11734", "U+11735", "U+11736", "U+11737", "U+11738", "U+11739",
    "U+118E0", "U+118E1", "U+118E2", "U+118E3", "U+118E4", "U+118E5",
    "U+118E6", "U+118E7", "U+118E8", "U+118E9", "U+11950", "U+11951",
    "U+11952", "U+11953", "U+11954", "U+11955", "U+11956", "U+11957",
    "U+11958", "U+11959", "U+11C50", "U+11C51", "U+11C52", "U+11C53",
    "U+11C54", "U+11C55", "U+11C56", "U+11C57", "U+11C58", "U+11C59",
    "U+11D50", "U+11D51", "U+11D52", "U+11D53", "U+11D54", "U+11D55",
    "U+11D56", "U+11D57", "U+11D58", "U+11D59", "U+11DA0", "U+11DA1",
    "U+11DA2", "U+11DA3", "U+11DA4", "U+11DA5", "U+11DA6", "U+11DA7",
    "U+11DA8", "U+11DA9", "U+16A60", "U+16A61", "U+16A62", "U+16A63",
    "U+16A64", "U+16A65", "U+16A66", "U+16A67", "U+16A68", "U+16A69",
    "U+16AC0", "U+16AC1", "U+16AC2", "U+16AC3", "U+16AC4", "U+16AC5",
    "U+16AC6", "U+16AC7", "U+16AC8", "U+16AC9", "U+16B50", "U+16B51",
    "U+16B52", "U+16B53", "U+16B54", "U+16B55", "U+16B56", "U+16B57",
    "U+16B58", "U+16B59", "U+1D7CE", "U+1D7CF", "U+1D7D0", "U+1D7D1",
    "U+1D7D2", "U+1D7D3", "U+1D7D4", "U+1D7D5", "U+1D7D6", "U+1D7D7",
    "U+1D7D8", "U+1D7D9", "U+1D7DA", "U+1D7DB", "U+1D7DC", "U+1D7DD",
    "U+1D7DE", "U+1D7DF", "U+1D7E0", "U+1D7E1", "U+1D7E2", "U+1D7E3",
    "U+1D7E4", "U+1D7E5", "U+1D7E6", "U+1D7E7", "U+1D7E8", "U+1D7E9",
    "U+1D7EA", "U+1D7EB", "U+1D7EC", "U+1D7ED", "U+1D7EE", "U+1D7EF",
    "U+1D7F0", "U+1D7F1", "U+1D7F2", "U+1D7F3", "U+1D7F4", "U+1D7F5",
    "U+1D7F6", "U+1D7F7", "U+1D7F8", "U+1D7F9", "U+1D7FA", "U+1D7FB",
    "U+1D7FC", "U+1D7FD", "U+1D7FE", "U+1D7FF", "U+1E140", "U+1E141",
    "U+1E142", "U+1E143", "U+1E144", "U+1E145", "U+1E146", "U+1E147",
    "U+1E148", "U+1E149", "U+1E2F0", "U+1E2F1", "U+1E2F2", "U+1E2F3",
    "U+1E2F4", "U+1E2F5", "U+1E2F6", "U+1E2F7", "U+1E2F8", "U+1E2F9",
    "U+1E950", "U+1E951", "U+1E952", "U+1E953", "U+1E954", "U+1E955",
    "U+1E956", "U+1E957", "U+1E958", "U+1E959", "U+1FBF0", "U+1FBF1",
    "U+1FBF2", "U+1FBF3", "U+1FBF4", "U+1FBF5", "U+1FBF6", "U+1FBF7",
    "U+1FBF8", "U+1FBF9" }

\* The representative of a character under re.IGNORECASE: two characters
\* match each other, where one of them is a character of the client
\* regexes, exactly when their representatives are equal.
Lower(c) == IF c \in CaseFolded THEN ToLower[c] ELSE c

LowerStr(s) == [k \in 1..Len(s) |-> Lower(s[k])]

\* \d
IsDigit(c) == c \in Digits

\* [\d.]
IsVersionChar(c) == IsDigit(c) \/ c = "."

\* [A-Za-z] (line 67 is searched without re.IGNORECASE)
IsAlpha(c) == c \in UpperCase \/ c \in LowerCase

\* [A-Za-z0-9_-]
IsProductChar(c) ==
    \/ IsAlpha(c)
    \/ c \in {"0", "1", "2", "3", "4", "5", "6", "7", "8", "9"}
    \/ c = "_" \/ c = "-"

Min(S) == CHOOSE m \in S : \A n \in S : m <= n

\* the literal lit stands in s at position i
LiteralAt(s, i, lit) ==
    /\ i + Len(lit) - 1 <= Len(s)
    /\ \A k \in 1..Len(lit) : s[i + k - 1] = lit[k]

\* a match object: matched, lastindex and group(1)
NoMatch == [matched |-> FALSE, lastindex |-> 0, group1 |-> <<>>]

----------------------------------------------------------------------------
(* API_PATTERNS, request_logger.py lines 17-30.  A rule (regex, mode) is   *)
(* kept by the parts of its regex:                                         *)
(*     ^ head (?:opt)? tail            when group = FALSE                  *)
(*     ^ head (?:opt)? tail ([^:]+):   when group = TRUE                   *)

API_PATTERNS_TABLE == <<
    \* r"^/antigravity/v1(?:beta)?/models/([^:]+):"
    [head |-> <<"/", "a", "n", "t", "i", "g", "r", "a", "v", "i", "t", "y", "/", "v", "1">>, opt |-> <<"b", "e", "t", "a">>, tail |-> <<"/", "m", "o", "d", "e", "l", "s", "/">>,
     group |-> TRUE, mode |-> "antigravity"],
    \* r"^/antigravity/v1/chat/completions"
    [head |-> <<"/", "a", "n", "t", "i", "g", "r", "a", "v", "i", "t", "y", "/", "v", "1", "/", "c", "h", "a", "t", "/", "c", "o", "m", "p", "l", "e", "t", "i", "o", "n", "s">>, opt |-> <<>>, tail |-> <<>>,
     group |-> FALSE, mode |-> "antigravity"],
    \* r"^/antigravity/v1/messages"
    [head |-> <<"/", "a", "n", "t", "i", "g", "r", "a", "v", "i", "t", "y", "/", "v", "1", "/", "m", "e", "s", "s", "a", "g", "e", "s">>, opt |-> <<>>, tail |-> <<>>,
     group |-> FALSE, mode |-> "antigravity"],
    \* r"^/v1(?:beta)?/models/([^:]+):"
    [head |-> <<"/", "v", "1">>, opt |-> <<"b", "e", "t", "a">>, tail |-> <<"/", "m", "o", "d", "e", "l", "s", "/">>,
     group |-> TRUE, mode |-> "geminicli"],
    \* r"^/v1/chat/completions"
    [head |-> <<"/", "v", "1", "/", "c", "h", "a", "t", "/", "c", "o", "m", "p", "l", "e", "t", "i", "o", "n", "s">>, opt |-> <<>>, tail |-> <<>>,
     group |-> FALSE, mode |-> "geminicli"],
    \* r"^/v1/messages"
    [head |-> <<"/", "v", "1", "/", "m", "e", "s", "s", "a", "g", "e", "s">>, opt |-> <<>>, tail |-> <<>>,
     group |-> FALSE, mode |-> "geminicli"] >>

\* The literal prefixes a rule's regex can consume, in the order the regex
\* engine tries them: the greedy (?:opt)? is tried present, then absent.
RuleLiterals(rule) ==
    IF rule.opt = <<>>
    THEN << rule.head \o rule.tail >>
    ELSE << rule.head \o rule.opt \o rule.tail, rule.head \o rule.tail >>

\* One alternative of re.match(pattern, path): the literal at the start of
\* the path, then, for a rule with a group, ([^:]+): which is one or more
\* characters other than ":" followed by ":".
MatchLiteral(rule, lit, path) ==
    IF ~LiteralAt(path, 1, lit) THEN NoMatch
    ELSE IF ~rule.group
    THEN [matched |-> TRUE, lastindex |-> 0, group1 |-> <<>>]
    ELSE LET i == Len(lit) + 1
             colons == {j \in i..Len(path) : path[j] = ":"}
         IN  IF colons = {} \/ Min(colons) = i THEN NoMatch
             ELSE [matched |-> TRUE, lastindex |-> 1,
                   group1 |-> SubSeq(path, i, Min(colons) - 1)]

\* re.match with the group of the regex written non-capturing
re_match_no_group(rule, path) ==
    LET lits == RuleLiterals(rule)
        hits == {k \in 1..Len(lits) : MatchLiteral(rule, lits[k], path).matched}
    IN  IF hits = {} THEN NoMatch
        ELSE [matched |-> TRUE, lastindex |-> 0, group1 |-> <<>>]

\* re.match(pattern, path), line 81
re_match(rule, path) ==
    LET lits == RuleLiterals(rule)
        hits == {k \in 1..Len(lits) : MatchLiteral(rule, lits[k], path).matched}
    IN  IF hits = {} THEN NoMatch ELSE MatchLiteral(rule, lits[Min(hits)], path)

----------------------------------------------------------------------------
(* extract_client_name, lines 33-71.                                       *)

\* lines 46-58: entry n stands for the regex r"(n)/[\d.]+"
client_patterns == <<
    <<"C", "h", "e", "r", "r", "y", "S", "t", "u", "d", "i", "o">>, <<"C", "u", "r", "s", "o", "r">>, <<"V", "S", "C", "o", "d", "e">>, <<"I", "n", "s", "o", "m", "n", "i", "a">>, <<"P", "o", "s", "t", "m", "a", "n">>,
    <<"H", "T", "T", "P", "i", "e">>, <<"c", "u", "r", "l">>, <<"p", "y", "t", "h", "o", "n", "-", "r", "e", "q", "u", "e", "s", "t", "s">>, <<"a", "x", "i", "o", "s">>, <<"n", "o", "d", "e", "-", "f", "e", "t", "c", "h">>,
    <<"E", "l", "e", "c", "t", "r", "o", "n">> >>

\* The positions of user_agent where r"(name)/[\d.]+" matches under
\* re.IGNORECASE: the name compared after case folding (folded is the
\* case-folded user_agent), then "/", then at least one character of [\d.].
ClientMatchPositions(name, user_agent, folded) ==
    LET literal == LowerStr(name)
    IN  {i \in 1..Len(user_agent) :
            /\ folded[i] = literal[1]
            /\ LiteralAt(folded, i, literal)
            /\ i + Len(name) + 1 <= Len(user_agent)
            /\ user_agent[i + Len(name)] = "/"
            /\ IsVersionChar(user_agent[i + Len(name) + 1])}

\* re.search(pattern, user_agent, re.IGNORECASE), line 61: the leftmost
\* match; group(1) is the matched slice of user_agent
re_search_client(name, user_agent, folded) ==
    LET at == ClientMatchPositions(name, user_agent, folded)
    IN  IF at = {} THEN NoMatch
        ELSE [matched |-> TRUE, lastindex |-> 1,
              group1 |-> SubSeq(user_agent, Min(at), Min(at) + Len(name) - 1)]

\* re.search(r"^([A-Za-z][A-Za-z0-9_-]*)/", user_agent), line 67
re_search_product(user_agent) ==
    LET stops == {j \in 1..Len(user_agent) : ~IsProductChar(user_agent[j])}
    IN  IF user_agent = <<>> \/ ~IsAlpha(user_agent[1]) \/ stops = {} THEN NoMatch
        ELSE IF user_agent[Min(stops)] # "/" THEN NoMatch
        ELSE [matched |-> TRUE, lastindex |-> 1,
              group1 |-> SubSeq(user_agent, 1, Min(stops) - 1)]

\* the loop of lines 60-63 without its early return: the last matching
\* entry wins
ClientScan_last_wins(patterns, k, user_agent, folded) ==
    LET hits == {j \in k..Len(patterns) :
                    re_search_client(patterns[j], user_agent, folded).matched}
        last == CHOOSE j \in hits : \A i \in hits : i <= j
        product == re_search_product(user_agent)
    IN  IF hits # {} THEN re_search_client(patterns[last], user_agent, folded).group1
        ELSE IF product.matched THEN product.group1 ELSE <<"B", "r", "o", "w", "s", "e", "r">>

\* the loop of lines 60-63, from entry k on, then lines 67-71
RECURSIVE ClientScan(_, _, _, _)
ClientScan(patterns, k, user_agent, folded) ==
    IF k > Len(patterns)
    THEN LET match == re_search_product(user_agent)
         IN  IF match.matched THEN match.group1 ELSE <<"B", "r", "o", "w", "s", "e", "r">>
    ELSE LET match == re_search_client(patterns[k], user_agent, folded)
         IN  IF match.matched THEN match.group1
             ELSE ClientScan(patterns, k + 1, user_agent, folded)

\* extract_client_name without the test of line 42
extract_client_name_no_empty_check(user_agent) ==
    ClientScan(client_patterns, 1, user_agent, LowerStr(user_agent))

extract_client_name(user_agent) ==
    IF user_agent = <<>> THEN <<"U", "n", "k", "n", "o", "w", "n">>
    ELSE ClientScan(client_patterns, 1, user_agent, LowerStr(user_agent))


\* The local list client_patterns when a call of extract_client_name has
\* returned.  A call that returns at line 43 has built no list, and local,
\* the list of the latest call that built one, stays; any other call builds
\* the list of lines 46-58, and the loop of lines 60-63 only reads it.
client_patterns_after(local, user_agent) ==
    IF user_agent = <<>> THEN local ELSE client_patterns

----------------------------------------------------------------------------
(* parse_request_info, lines 74-88.  None is the value with              *)
(* is_none = TRUE; a tuple (mode, model, client) has is_none = FALSE.      *)

None == [is_none |-> TRUE, mode |-> "", model |-> <<>>, client |-> <<>>]

\* the loop of lines 80-86 from rule k on, then line 88
RECURSIVE PatternScan(_, _, _, _)
PatternScan(patterns, k, path, user_agent) ==
    IF k > Len(patterns) THEN None
    ELSE LET match == re_match(patterns[k], path)
         IN  IF match.matched
             THEN [is_none |-> FALSE,
                   mode |-> patterns[k].mode,
                   model |-> IF match.lastindex # 0 THEN match.group1 ELSE <<"c", "h", "a", "t">>,
                   client |-> extract_client_name(user_agent)]
             ELSE PatternScan(patterns, k + 1, path, user_agent)

\* parse_request_info taking the matched rule out of the table
parse_request_info_consuming(patterns, path, user_agent) ==
    [result |-> PatternScan(patterns, 1, path, user_agent),
     patterns |-> SelectSeq(patterns, LAMBDA rule : ~re_match(rule, path).matched)]

\* The call returns a value and leaves the module global as it found it:
\* result is the returned value, patterns the table after the call.
parse_request_info(patterns, path, user_agent) ==
    [result |-> PatternScan(patterns, 1, path, user_agent),
     patterns |-> patterns]

----------------------------------------------------------------------------
(* RequestLoggerMiddleware.dispatch, lines 98-113.                         *)

\* the two glyphs of line 108, one character each
ROCKET == "U+1F680"
SPARKLES == "U+2728"

\* request.headers.get("user-agent", ""), line 101
HeadersGet(headers) ==
    IF headers.has_user_agent THEN headers.user_agent ELSE <<>>

\* A side effect of dispatch: a call of log.info(line) or of
\* call_next(request).
NoRequest == [path |-> <<>>, headers |-> [has_user_agent |-> FALSE, user_agent |-> <<>>]]
LogInfo(line) == [op |-> "log.info", line |-> line, request |-> NoRequest]
CallNext(request) == [op |-> "call_next", line |-> <<>>, request |-> request]

\* The logging facility (module log, imported at line 13): log.info takes
\* one message; the sink receives it, and the call raises when the sink is
\* unavailable.
log_info(sink, line, sink_up) ==
    [sink |-> Append(sink, line), raised |-> ~sink_up]

\* dispatch writing a line for a request that no rule matched
dispatch_log_unmatched(patterns, request, sink_up) ==
    LET parsed == parse_request_info(patterns, request.path, HeadersGet(request.headers))
        info == parsed.result
        emoji == IF info.mode = "antigravity" THEN ROCKET ELSE SPARKLES
        line == <<emoji, " ">> \o info.model \o <<" ", "|", " ">> \o info.client
    IN  IF sink_up
        THEN [effects |-> << LogInfo(line), CallNext(request) >>,
              raised |-> FALSE, patterns |-> parsed.patterns]
        ELSE [effects |-> << LogInfo(line) >>,
              raised |-> TRUE, patterns |-> parsed.patterns]

\* dispatch with the two glyphs of line 108 exchanged
dispatch_glyphs_swapped(patterns, request, sink_up) ==
    LET parsed == parse_request_info(patterns, request.path, HeadersGet(request.headers))
        info == parsed.result
        emoji == IF info.mode = "antigravity" THEN SPARKLES ELSE ROCKET
        line == <<emoji, " ">> \o info.model \o <<" ", "|", " ">> \o info.client
    IN  IF ~info.is_none
        THEN IF sink_up
             THEN [effects |-> << LogInfo(line), CallNext(request) >>,
                   raised |-> FALSE, patterns |-> parsed.patterns]
             ELSE [effects |-> << LogInfo(line) >>,
                   raised |-> TRUE, patterns |-> parsed.patterns]
        ELSE [effects |-> << CallNext(request) >>,
              raised |-> FALSE, patterns |-> parsed.patterns]

\* dispatch starting call_next before it writes the line
dispatch_forward_first(patterns, request, sink_up) ==
    LET parsed == parse_request_info(patterns, request.path, HeadersGet(request.headers))
        info == parsed.result
        emoji == IF info.mode = "antigravity" THEN ROCKET ELSE SPARKLES
        line == <<emoji, " ">> \o info.model \o <<" ", "|", " ">> \o info.client
    IN  IF ~info.is_none
        THEN [effects |-> << CallNext(request), LogInfo(line) >>,
              raised |-> ~sink_up, patterns |-> parsed.patterns]
        ELSE [effects |-> << CallNext(request) >>,
              raised |-> FALSE, patterns |-> parsed.patterns]

\* dispatch up to its only suspension point, lines 100-112: the side effects
\* in program order, whether an exception left dispatch before the await,
\* and the rule table after the call.  An exception raised by log.info is
\* not caught (there is no try in dispatch), so call_next is not reached.
dispatch(patterns, request, sink_up) ==
    LET path == request.path
        user_agent == HeadersGet(request.headers)
        parsed == parse_request_info(patterns, path, user_agent)
        info == parsed.result
        emoji == IF info.mode = "antigravity" THEN ROCKET ELSE SPARKLES
        line == <<emoji, " ">> \o info.model \o <<" ", "|", " ">> \o info.client
    IN  IF ~info.is_none
        THEN IF sink_up
             THEN [effects |-> << LogInfo(line), CallNext(request) >>,
                   raised |-> FALSE, patterns |-> parsed.patterns]
             ELSE [effects |-> << LogInfo(line) >>,
                   raised |-> TRUE, patterns |-> parsed.patterns]
        ELSE [effects |-> << CallNext(request) >>,
              raised |-> FALSE, patterns |-> parsed.patterns]

\* lines 112-113 after the await: dispatch returns what call_next returned
dispatch_return(response) == response

----------------------------------------------------------------------------
(* The inputs.                                                             *)

\* the number of dispatch calls that can be in flight together
NReq == 2

\* the number of direct calls of the module functions in one run
MaxCalls == 3

Requests == 1..NReq

NoHeader == [has_user_agent |-> FALSE, user_agent |-> <<>>]
Header(user_agent) == [has_user_agent |-> TRUE, user_agent |-> user_agent]

\* request paths of the middleware runs
DispatchPaths == {
    <<"/", "a", "n", "t", "i", "g", "r", "a", "v", "i", "t", "y", "/", "v", "1", "b", "e", "t", "a", "/", "m", "o", "d", "e", "l", "s", "/", "g", "e", "m", "i", "n", "i", "-", "3", "-", "f", "l", "a", "s", "h", ":", "s", "t", "r", "e", "a", "m", "G", "e", "n", "e", "r", "a", "t", "e", "C", "o", "n", "t", "e", "n", "t">>,
    <<"/", "v", "1", "/", "c", "h", "a", "t", "/", "c", "o", "m", "p", "l", "e", "t", "i", "o", "n", "s">>,
    <<"/", "s", "t", "a", "t", "i", "c", "/", "a", "p", "p", ".", "j", "s">> }

\* paths of the runs that mix direct calls and dispatch calls: one a rule
\* matches and one no rule matches
CallsPaths == {
    <<"/", "a", "n", "t", "i", "g", "r", "a", "v", "i", "t", "y", "/", "v", "1", "b", "e", "t", "a", "/", "m", "o", "d", "e", "l", "s", "/", "g", "e", "m", "i", "n", "i", "-", "3", "-", "f", "l", "a", "s", "h", ":", "s", "t", "r", "e", "a", "m", "G", "e", "n", "e", "r", "a", "t", "e", "C", "o", "n", "t", "e", "n", "t">>,
    <<"/", "s", "t", "a", "t", "i", "c", "/", "a", "p", "p", ".", "j", "s">> }

\* request headers of the middleware runs
DispatchHeaders == {
    NoHeader,
    Header(<<"M", "o", "z", "i", "l", "l", "a", "/", "5", ".", "0", " ", "(", "X", "1", "1", ")", " ", "C", "h", "e", "r", "r", "y", "S", "t", "u", "d", "i", "o", "/", "1", ".", "7", ".", "1", "3", " ", "E", "l", "e", "c", "t", "r", "o", "n", "/", "3", "0", ".", "0">>) }

\* what the next handler can return
Responses == {[status |-> "200 OK"], [status |-> "500 Internal Server Error"]}
NoResponse == [status |-> ""]

\* paths of the direct calls of parse_request_info
Paths == DispatchPaths \cup {
    <<"/">>,
    <<"/", "v", "1", "/", "m", "o", "d", "e", "l", "s", "/", "g", "e", "m", "i", "n", "i", "-", "3", "-", "f", "l", "a", "s", "h">>,
    <<"/", "a", "n", "t", "i", "g", "r", "a", "v", "i", "t", "y", "/", "v", "1", "/", "m", "o", "d", "e", "l", "s", "/", "g", ":", "x">>,
    <<"/", "a", "n", "t", "i", "g", "r", "a", "v", "i", "t", "y", "/", "v", "1", "/", "c", "h", "a", "t", "/", "c", "o", "m", "p", "l", "e", "t", "i", "o", "n", "s">>,
    <<"/", "a", "n", "t", "i", "g", "r", "a", "v", "i", "t", "y", "/", "v", "1", "/", "m", "e", "s", "s", "a", "g", "e", "s">>,
    <<"/", "a", "n", "t", "i", "g", "r", "a", "v", "i", "t", "y", "/", "v", "1", "/", "c", "h", "a", "t", "/", "c", "o", "m", "p", "l", "e", "t", "i", "o", "n", "s", "/", "v", "1", "/", "m", "o", "d", "e", "l", "s", "/", "x", ":", "y">>,
    <<"/", "v", "1", "b", "e", "t", "a", "/", "m", "o", "d", "e", "l", "s", "/", "g", "e", "m", "i", "n", "i", "-", "2", ".", "5", "-", "p", "r", "o", ":", "g", "e", "n", "e", "r", "a", "t", "e", "C", "o", "n", "t", "e", "n", "t">>,
    <<"/", "v", "1", "/", "m", "o", "d", "e", "l", "s", "/", "a", "/", "b", ":", "c", ":", "d">>,
    <<"/", "v", "1", "/", "m", "e", "s", "s", "a", "g", "e", "s">>,
    <<"/", "v", "1", "/", "m", "e", "s", "s", "a", "g", "e", "s", "/", "c", "o", "u", "n", "t", "_", "t", "o", "k", "e", "n", "s">>,
    <<"/", "v", "1", "/", "m", "o", "d", "e", "l", "s", "/", ":", "x">>,
    <<"/", "v", "1", "b", "e", "t", "a", "/", "c", "h", "a", "t", "/", "c", "o", "m", "p", "l", "e", "t", "i", "o", "n", "s">>,
    <<"/", "a", "n", "t", "i", "g", "r", "a", "v", "i", "t", "y", "/", "v", "1", "b", "e", "t", "a", "b", "e", "t", "a", "/", "m", "o", "d", "e", "l", "s", "/", "x", ":">>,
    <<"/", "V", "1", "/", "m", "e", "s", "s", "a", "g", "e", "s">>,
    <<"/", "a", "p", "i", "/", "v", "1", "/", "m", "e", "s", "s", "a", "g", "e", "s">>,
    <<>> }

\* User-Agent values of the direct calls of parse_request_info
ParseUserAgents == {
    <<>>,
    <<"M", "o", "z", "i", "l", "l", "a", "/", "5", ".", "0", " ", "(", "X", "1", "1", ")", " ", "C", "h", "e", "r", "r", "y", "S", "t", "u", "d", "i", "o", "/", "1", ".", "7", ".", "1", "3", " ", "E", "l", "e", "c", "t", "r", "o", "n", "/", "3", "0", ".", "0">> }

\* User-Agent values of the direct calls of extract_client_name
UserAgents == ParseUserAgents \cup {
    <<"c", "u", "r", "l", "/", "8", ".", "1">>,
    <<"C", "h", "e", "r", "r", "y", "S", "t", "u", "d", "i", "o", "/", "1", ".", "7", ".", "1", "3">>,
    <<"c", "h", "e", "r", "r", "y", "s", "t", "u", "d", "i", "o", "/", "1", ".", "0">>,
    <<"C", "U", "R", "L", "/", "7", ".", "0">>,
    <<"c", "u", "r", "l", "/", "x">>,
    <<"c", "u", "r", "l", "/", "x", " ", "C", "U", "R", "L", "/", "1", ".", "0">>,
    <<"l", "i", "b", "c", "u", "r", "l", "/", "7", ".", "1">>,
    <<"E", "l", "e", "c", "t", "r", "o", "n", "/", "3", "0", ".", "0", " ", "C", "u", "r", "s", "o", "r", "/", "2", ".", "1", ".", "0">>,
    <<"V", "S", "C", "O", "D", "E", "/", "1", ".", "9", "0", " ", "c", "u", "r", "s", "o", "r", "/", "0", ".", "4">>,
    <<"p", "y", "t", "h", "o", "n", "-", "r", "e", "q", "u", "e", "s", "t", "s", "/", "2", ".", "2", "8", ".", "0">>,
    <<"P", "o", "s", "t", "m", "a", "n", "/">>,
    <<"S", "o", "m", "e", "W", "e", "i", "r", "d", "C", "l", "i", "e", "n", "t">>,
    <<"M", "y", "A", "p", "p", "/", "1", ".", "0">>,
    <<"o", "k", "h", "t", "t", "p", "/", "4", ".", "9", ".", "3">>,
    <<"U", "n", "k", "n", "o", "w", "n", "/", "1", ".", "0">>,
    <<"B", "r", "o", "w", "s", "e", "r", "/", "1">>,
    <<"C", "u", "r", "U+017F", "o", "r", "/", "1", ".", "0">>,
    <<"x", " ", "c", "u", "r", "l", "/", "U+0663">>,
    <<"H", "T", "T", "P", "U+0131", "e", "/", "U+FF13", ".", "2">>,
    <<"9", "U+0663", "/", "1">>,
    <<"1", "a", "b", "c", "/", "2">>,
    <<"m", "y", " ", "a", "p", "p", "/", "1">>,
    <<"M", "o", "z", "i", "l", "l", "a", "/", "5", ".", "0", " ", "(", "W", "i", "n", "d", "o", "w", "s", " ", "N", "T", " ", "1", "0", ".", "0", ";", " ", "W", "i", "n", "6", "4", ";", " ", "x", "6", "4", ")">> }

----------------------------------------------------------------------------
(* The state machine.                                                      *)

IdleCall ==
    [pc |-> "idle", request |-> NoRequest, effects |-> <<>>,
     response |-> NoResponse, returned |-> NoResponse]

NoArgs == [fn |-> "", path |-> <<>>, user_agent |-> <<>>]
\* started: the requests dispatch had been called for when the call returned
NoCall ==
    [fn |-> "", path |-> <<>>, user_agent |-> <<>>, out |-> None, started |-> {}]

Init ==
    /\ API_PATTERNS = API_PATTERNS_TABLE
    /\ calls = [r \in Requests |-> IdleCall]
    /\ log_sink = <<>>
    /\ arg = NoArgs
    /\ ret = NoCall
    /\ memo = NoCall
    /\ ncalls = 0
    /\ client_patterns_local = <<>>

IsLog(e) == e.op = "log.info"
IsForward(e) == e.op = "call_next"

\* the messages passed to log.info among effects, in order
RECURSIVE Lines(_)
Lines(effects) ==
    IF effects = <<>> THEN <<>>
    ELSE (IF IsLog(Head(effects)) THEN << Head(effects).line >> ELSE <<>>)
         \o Lines(Tail(effects))

\* the sink after the log.info calls among effects, in order
RECURSIVE Deliver(_, _, _)
Deliver(sink, effects, sink_up) ==
    IF effects = <<>> THEN sink
    ELSE Deliver(IF IsLog(Head(effects))
                 THEN log_info(sink, Head(effects).line, sink_up).sink
                 ELSE sink,
                 Tail(effects), sink_up)

\* The framework calls dispatch(request, call_next); dispatch runs to its
\* await of call_next, or to the exception that ends it.
DispatchBeginOf(r, paths, all_headers) ==
    /\ calls[r].pc = "idle"
    /\ \E path \in paths, headers \in all_headers, sink_up \in BOOLEAN :
          LET request == [path |-> path, headers |-> headers]
              d == dispatch(API_PATTERNS, request, sink_up)
          IN  /\ calls' = [calls EXCEPT ![r] =
                     [pc |-> IF d.raised THEN "raised" ELSE "awaiting",
                      request |-> request,
                      effects |-> d.effects,
                      response |-> NoResponse,
                      returned |-> NoResponse]]
              /\ log_sink' = Deliver(log_sink, d.effects, sink_up)
              /\ API_PATTERNS' = d.patterns
              /\ client_patterns_local' =
                     IF Lines(d.effects) = <<>> THEN client_patterns_local
                     ELSE client_patterns_after(client_patterns_local,
                                                HeadersGet(headers))
    /\ UNCHANGED <<arg, ret, memo, ncalls>>

DispatchBegin(r) == DispatchBeginOf(r, DispatchPaths, DispatchHeaders)

\* The next handler returns a response; dispatch resumes and returns.
CallNextReturn(r) ==
    /\ calls[r].pc = "awaiting"
    /\ \E response \in Responses :
          calls' = [calls EXCEPT ![r].pc = "returned",
                                 ![r].response = response,
                                 ![r].returned = dispatch_return(response)]
    /\ UNCHANGED <<API_PATTERNS, log_sink, arg, ret, memo, ncalls,
                   client_patterns_local>>

\* The next handler raises; the exception leaves dispatch.
CallNextRaise(r) ==
    /\ calls[r].pc = "awaiting"
    /\ calls' = [calls EXCEPT ![r].pc = "raised"]
    /\ UNCHANGED <<API_PATTERNS, log_sink, arg, ret, memo, ncalls,
                   client_patterns_local>>

Next ==
    \E r \in Requests :
        \/ DispatchBegin(r)
        \/ CallNextReturn(r)
        \/ CallNextRaise(r)

\* The middleware under concurrent requests.
Spec == Init /\ [][Next]_vars

\* A caller invokes parse_request_info(path, user_agent), the arguments
\* taken from paths and user_agents.
CallParseOf(paths, user_agents) ==
    /\ arg = NoArgs
    /\ ncalls < MaxCalls
    /\ \E path \in paths, user_agent \in user_agents :
          arg' = [fn |-> "parse_request_info", path |-> path,
                  user_agent |-> user_agent]
    /\ ret' = NoCall
    /\ ncalls' = ncalls + 1
    /\ UNCHANGED <<API_PATTERNS, calls, log_sink, memo, client_patterns_local>>

\* A caller invokes extract_client_name(user_agent), the argument taken
\* from user_agents.
CallExtractOf(user_agents) ==
    /\ arg = NoArgs
    /\ ncalls < MaxCalls
    /\ \E user_agent \in user_agents :
          arg' = [fn |-> "extract_client_name", path |-> <<>>,
                  user_agent |-> user_agent]
    /\ ret' = NoCall
    /\ ncalls' = ncalls + 1
    /\ UNCHANGED <<API_PATTERNS, calls, log_sink, memo, client_patterns_local>>

CallParse == CallParseOf(Paths, ParseUserAgents)
CallExtract == CallExtractOf(UserAgents)

\* parse_request_info runs and returns.
ParseReturns ==
    /\ arg.fn = "parse_request_info"
    /\ LET parsed == parse_request_info(API_PATTERNS, arg.path, arg.user_agent)
           call == [fn |-> arg.fn, path |-> arg.path,
                    user_agent |-> arg.user_agent, out |-> parsed.result,
                    started |-> {r \in Requests : calls[r].pc # "idle"}]
       IN  /\ ret' = call
           /\ memo' = IF memo = NoCall THEN call ELSE memo
           /\ API_PATTERNS' = parsed.patterns
           /\ client_patterns_local' =
                  IF parsed.result.is_none THEN client_patterns_local
                  ELSE client_patterns_after(client_patterns_local, arg.user_agent)
    /\ arg' = NoArgs
    /\ UNCHANGED <<calls, log_sink, ncalls>>

\* extract_client_name runs and returns; the returned name is the client
\* field of out.
ExtractReturns ==
    /\ arg.fn = "extract_client_name"
    /\ LET call == [fn |-> arg.fn, path |-> arg.path,
                    user_agent |-> arg.user_agent,
                    out |-> [is_none |-> FALSE, mode |-> "", model |-> <<>>,
                             client |-> extract_client_name(arg.user_agent)],
                    started |-> {r \in Requests : calls[r].pc # "idle"}]
       IN  /\ ret' = call
           /\ memo' = IF memo = NoCall THEN call ELSE memo
           /\ client_patterns_local' =
                  client_patterns_after(client_patterns_local, arg.user_agent)
    /\ arg' = NoArgs
    /\ UNCHANGED <<API_PATTERNS, calls, log_sink, ncalls>>

NextFn == CallParse \/ CallExtract \/ ParseReturns \/ ExtractReturns

\* The module functions called directly, one call after another.
SpecFn == Init /\ [][NextFn]_vars

\* Direct calls and dispatch calls in one process, in any order.  A direct
\* call is synchronous: nothing else runs between its start and its return,
\* so a dispatch call starts or resumes only while no direct call is in
\* progress.  The dispatch calls and the direct calls take their paths
\* from CallsPaths and their User-Agent values from DispatchHeaders.
NextCalls ==
    \/ CallParseOf(CallsPaths, ParseUserAgents)
    \/ CallExtractOf(ParseUserAgents)
    \/ ParseReturns
    \/ ExtractReturns
    \/ arg = NoArgs /\ \E r \in Requests :
                           DispatchBeginOf(r, CallsPaths, DispatchHeaders)
    \/ arg = NoArgs /\ \E r \in Requests : CallNextReturn(r)
    \/ arg = NoArgs /\ \E r \in Requests : CallNextRaise(r)

SpecCalls == Init /\ [][NextCalls]_vars

----------------------------------------------------------------------------
(* What the claims are stated with.  These are evaluated on the literal    *)
(* rule tables of the source, not on the state.                            *)

\* the rules of the source table whose regex matches the path
MatchingRules(path) ==
    {k \in 1..Len(API_PATTERNS_TABLE) : re_match(API_PATTERNS_TABLE[k], path).matched}

\* the texts a rule's ([^:]+) can capture from the path: what stands
\* between one of the rule's literal prefixes and the first ":" after it,
\* when that is not empty
Captures(rule, path) ==
    LET lits == RuleLiterals(rule)
        ends == {kn \in (1..Len(lits)) \X (1..Len(path)) :
                    LET first == Len(lits[kn[1]]) + 1
                    IN  /\ LiteralAt(path, 1, lits[kn[1]])
                        /\ kn[2] > first
                        /\ path[kn[2]] = ":"
                        /\ \A x \in first..(kn[2] - 1) : path[x] # ":"}
    IN  {SubSeq(path, Len(lits[kn[1]]) + 1, kn[2] - 1) : kn \in ends}

\* the entries of client_patterns whose regex matches the User-Agent
KnownClients(user_agent) ==
    {k \in 1..Len(client_patterns) :
        ClientMatchPositions(client_patterns[k], user_agent, LowerStr(user_agent)) # {}}

DispatchMatched == {p \in DispatchPaths : MatchingRules(p) # {}}

Started(r) == calls[r].pc # "idle"
LogCount(r) == Len(Lines(calls[r].effects))
ForwardCount(r) == Len(SelectSeq(calls[r].effects, IsForward))
ExtractDone == ret.fn = "extract_client_name"
ParseDone == ret.fn = "parse_request_info"

----------------------------------------------------------------------------
(* C1 *)

\* C1 (as claimed): every request handled by dispatch, matched or not, is
\* passed to call_next exactly once, unchanged, and dispatch returns exactly
\* the response call_next returned.
C1_ForwardedExactlyOnce ==
    \A r \in Requests :
        Started(r) =>
            /\ SelectSeq(calls[r].effects, IsForward) = << CallNext(calls[r].request) >>
            /\ calls[r].pc = "returned" => calls[r].returned = calls[r].response

----------------------------------------------------------------------------
(* C2 *)

\* C2 (as claimed): a request whose path matches a rule is still forwarded to
\* the next handler when the log.info call of dispatch raises.
C2_ForwardedDespiteLogFailure ==
    \A r \in Requests :
        (Started(r) /\ calls[r].request.path \in DispatchMatched) =>
            ForwardCount(r) = 1

----------------------------------------------------------------------------
(* C3 *)

\* C3: one dispatch call makes exactly one log.info call when the request
\* path matches an entry of API_PATTERNS and none when it matches no entry.
C3_OneLinePerMatchedRequest ==
    \A r \in Requests :
        Started(r) =>
            LogCount(r) = (IF calls[r].request.path \in DispatchMatched THEN 1 ELSE 0)

\* C3 witness: a matched request that logged once beside an unmatched
\* request that was handled without a log line.
C3_Witness ==
    \E r1, r2 \in Requests :
        /\ Started(r1) /\ calls[r1].request.path \in DispatchMatched /\ LogCount(r1) = 1
        /\ Started(r2) /\ calls[r2].request.path \notin DispatchMatched /\ LogCount(r2) = 0

----------------------------------------------------------------------------
(* C4 *)

\* C4 (as claimed): when a known-client regex matches the User-Agent, the
\* returned name has the letter case written in the regex, not the case
\* found in the input.
C4_RegexLiteralCase ==
    (ExtractDone /\ KnownClients(ret.user_agent) # {}) =>
        ret.out.client = client_patterns[Min(KnownClients(ret.user_agent))]

----------------------------------------------------------------------------
(* C5 *)

\* C5: the first rule of API_PATTERNS, in table order, whose regex matches
\* the path decides the result: mode is that rule's tag, model is that
\* rule's first capture when the rule has a group and "chat" otherwise; a
\* path no rule matches gives None.
C5_FirstRuleDecides ==
    ParseDone =>
        LET hits == MatchingRules(ret.path)
        IN  /\ hits = {} <=> ret.out.is_none
            /\ hits # {} =>
                 LET rule == API_PATTERNS_TABLE[Min(hits)]
                 IN  /\ ret.out.mode = rule.mode
                     /\ rule.group => ret.out.model \in Captures(rule, ret.path)
                     /\ ~rule.group => ret.out.model = <<"c", "h", "a", "t">>
            /\ ret.path = <<"/", "a", "n", "t", "i", "g", "r", "a", "v", "i", "t", "y", "/", "v", "1", "b", "e", "t", "a", "/", "m", "o", "d", "e", "l", "s", "/", "g", "e", "m", "i", "n", "i", "-", "3", "-", "f", "l", "a", "s", "h", ":", "s", "t", "r", "e", "a", "m", "G", "e", "n", "e", "r", "a", "t", "e", "C", "o", "n", "t", "e", "n", "t">>
                 => ret.out.mode = "antigravity" /\ ret.out.model = <<"g", "e", "m", "i", "n", "i", "-", "3", "-", "f", "l", "a", "s", "h">>
            /\ ret.path = <<"/", "v", "1", "/", "c", "h", "a", "t", "/", "c", "o", "m", "p", "l", "e", "t", "i", "o", "n", "s">>
                 => ret.out.mode = "geminicli" /\ ret.out.model = <<"c", "h", "a", "t">>

\* C5 witness: a path with a model segment was classified by the first
\* rule, with the captured model.
C5_Witness ==
    /\ ParseDone
    /\ ret.path = <<"/", "a", "n", "t", "i", "g", "r", "a", "v", "i", "t", "y", "/", "v", "1", "b", "e", "t", "a", "/", "m", "o", "d", "e", "l", "s", "/", "g", "e", "m", "i", "n", "i", "-", "3", "-", "f", "l", "a", "s", "h", ":", "s", "t", "r", "e", "a", "m", "G", "e", "n", "e", "r", "a", "t", "e", "C", "o", "n", "t", "e", "n", "t">>
    /\ MatchingRules(ret.path) = {1}
    /\ ret.out.mode = "antigravity"
    /\ ret.out.model = <<"g", "e", "m", "i", "n", "i", "-", "3", "-", "f", "l", "a", "s", "h">>

----------------------------------------------------------------------------
(* C6 *)

\* C6 (as claimed): extract_client_name returns a non-null string for every
\* input, returns "Unknown" exactly when the header is empty, and returns
\* "Browser" when the input is non-empty, matches no known-client regex and
\* does not start with a ProductName/ token.
C6_UnknownExactlyWhenEmpty ==
    ExtractDone =>
        /\ Len(ret.out.client) >= 1
        /\ ret.out.client = <<"U", "n", "k", "n", "o", "w", "n">> <=> ret.user_agent = <<>>
        /\ (/\ ret.user_agent # <<>>
            /\ KnownClients(ret.user_agent) = {}
            /\ ~re_search_product(ret.user_agent).matched)
             => ret.out.client = <<"B", "r", "o", "w", "s", "e", "r">>

\* C6 (amended): extract_client_name returns a non-null string for every
\* input; it returns "Unknown" whenever the header is empty, and for a
\* non-empty header only when no known-client regex matches and the header
\* starts with the product token Unknown/; it returns "Browser" when the
\* input is non-empty, matches no known-client regex and does not start
\* with a ProductName/ token.
C6_TotalWithSentinels ==
    ExtractDone =>
        /\ Len(ret.out.client) >= 1
        /\ ret.user_agent = <<>> => ret.out.client = <<"U", "n", "k", "n", "o", "w", "n">>
        /\ (ret.out.client = <<"U", "n", "k", "n", "o", "w", "n">> /\ ret.user_agent # <<>>)
             => /\ KnownClients(ret.user_agent) = {}
                /\ LiteralAt(ret.user_agent, 1, <<"U", "n", "k", "n", "o", "w", "n", "/">>)
        /\ (/\ ret.user_agent # <<>>
            /\ KnownClients(ret.user_agent) = {}
            /\ ~re_search_product(ret.user_agent).matched)
             => ret.out.client = <<"B", "r", "o", "w", "s", "e", "r">>

\* C6 witness: the call for the non-empty header "Unknown/1.0" returned
\* "Unknown".
C6_Witness ==
    /\ ExtractDone
    /\ ret.user_agent = <<"U", "n", "k", "n", "o", "w", "n", "/", "1", ".", "0">>
    /\ ret.out.client = <<"U", "n", "k", "n", "o", "w", "n">>

----------------------------------------------------------------------------
(* C7 *)

\* C7: when known-client regexes match the User-Agent, the name returned is
\* the one matched by the regex that stands earliest in client_patterns,
\* wherever the tokens stand in the string; the leading ProductName/ token
\* is used only when no known-client regex matches.
C7_EarliestClientRuleWins ==
    (ExtractDone /\ ret.user_agent # <<>>) =>
        LET known == KnownClients(ret.user_agent)
            product == re_search_product(ret.user_agent)
        IN  /\ known # {} =>
                 LowerStr(ret.out.client) = LowerStr(client_patterns[Min(known)])
            /\ known = {} =>
                 ret.out.client = (IF product.matched THEN product.group1 ELSE <<"B", "r", "o", "w", "s", "e", "r">>)
            /\ ret.user_agent = <<"M", "o", "z", "i", "l", "l", "a", "/", "5", ".", "0", " ", "(", "X", "1", "1", ")", " ", "C", "h", "e", "r", "r", "y", "S", "t", "u", "d", "i", "o", "/", "1", ".", "7", ".", "1", "3", " ", "E", "l", "e", "c", "t", "r", "o", "n", "/", "3", "0", ".", "0">>
                 => ret.out.client = <<"C", "h", "e", "r", "r", "y", "S", "t", "u", "d", "i", "o">>
            /\ ret.user_agent = <<"E", "l", "e", "c", "t", "r", "o", "n", "/", "3", "0", ".", "0", " ", "C", "u", "r", "s", "o", "r", "/", "2", ".", "1", ".", "0">>
                 => ret.out.client = <<"C", "u", "r", "s", "o", "r">>

\* C7 witness: a header whose first token matches a later rule and whose
\* second token matches an earlier rule returned the earlier rule's name.
C7_Witness ==
    /\ ExtractDone
    /\ ret.user_agent = <<"E", "l", "e", "c", "t", "r", "o", "n", "/", "3", "0", ".", "0", " ", "C", "u", "r", "s", "o", "r", "/", "2", ".", "1", ".", "0">>
    /\ KnownClients(ret.user_agent) = {2, 11}
    /\ ret.out.client = <<"C", "u", "r", "s", "o", "r">>

----------------------------------------------------------------------------
(* C8 *)

\* the line the claim describes for a request: the glyph of the mode, a
\* space, the model of the pattern matcher, " | ", the client name of the
\* User-Agent header (a missing header read as "")
ClaimedLine(request) ==
    LET user_agent == IF request.headers.has_user_agent
                      THEN request.headers.user_agent ELSE <<>>
        info == PatternScan(API_PATTERNS_TABLE, 1, request.path, user_agent)
        glyph == IF info.mode = "antigravity" THEN "U+1F680" ELSE "U+2728"
    IN  <<glyph>> \o <<" ">> \o info.model \o <<" ", "|", " ">>
            \o extract_client_name(user_agent)

\* C8: the line passed to log.info for a matched request is exactly
\* "<emoji> <model> | <client>": the rocket for mode antigravity and the
\* sparkles for mode geminicli, the model of the pattern matcher, and the
\* client name extracted from the request's User-Agent header.
C8_LogLineFormat ==
    \A r \in Requests :
        \A i \in 1..Len(calls[r].effects) :
            LET e == calls[r].effects[i]
                request == calls[r].request
            IN  IsLog(e) =>
                  /\ e.line = ClaimedLine(request)
                  /\ e.line[1] \in {"U+1F680", "U+2728"}
                  /\ e.line[1] = "U+1F680" <=> LiteralAt(request.path, 1, <<"/", "a", "n", "t", "i", "g", "r", "a", "v", "i", "t", "y", "/">>)
                  /\ (/\ request.path = <<"/", "a", "n", "t", "i", "g", "r", "a", "v", "i", "t", "y", "/", "v", "1", "b", "e", "t", "a", "/", "m", "o", "d", "e", "l", "s", "/", "g", "e", "m", "i", "n", "i", "-", "3", "-", "f", "l", "a", "s", "h", ":", "s", "t", "r", "e", "a", "m", "G", "e", "n", "e", "r", "a", "t", "e", "C", "o", "n", "t", "e", "n", "t">>
                      /\ request.headers.has_user_agent)
                       => e.line = <<"U+1F680">> \o <<" ", "g", "e", "m", "i", "n", "i", "-", "3", "-", "f", "l", "a", "s", "h", " ", "|", " ", "C", "h", "e", "r", "r", "y", "S", "t", "u", "d", "i", "o">>
                  /\ (/\ request.path = <<"/", "v", "1", "/", "c", "h", "a", "t", "/", "c", "o", "m", "p", "l", "e", "t", "i", "o", "n", "s">>
                      /\ ~request.headers.has_user_agent)
                       => e.line = <<"U+2728">> \o <<" ", "c", "h", "a", "t", " ", "|", " ", "U", "n", "k", "n", "o", "w", "n">>

\* C8 witness: a line of each mode has been written, one for a request
\* with a User-Agent header and one for a request without.
C8_Witness ==
    \E r1, r2 \in Requests :
        /\ LogCount(r1) = 1 /\ LogCount(r2) = 1
        /\ Lines(calls[r1].effects)[1] = <<"U+1F680">> \o <<" ", "g", "e", "m", "i", "n", "i", "-", "3", "-", "f", "l", "a", "s", "h", " ", "|", " ", "C", "h", "e", "r", "r", "y", "S", "t", "u", "d", "i", "o">>
        /\ Lines(calls[r2].effects)[1] = <<"U+2728">> \o <<" ", "c", "h", "a", "t", " ", "|", " ", "U", "n", "k", "n", "o", "w", "n">>

----------------------------------------------------------------------------
(* C9 *)

SameArguments(a, b) ==
    a.fn = b.fn /\ a.path = b.path /\ a.user_agent = b.user_agent

\* the line of a classification: glyph, model and client as line 109 joins
\* them
LineOf(info) ==
    << IF info.mode = "antigravity" THEN "U+1F680" ELSE "U+2728", " " >>
        \o info.model \o <<" ", "|", " ">> \o info.client

\* the direct call c classified the (path, user-agent) pair of request r
SamePair(c, r) ==
    /\ c.fn = "parse_request_info"
    /\ c.path = calls[r].request.path
    /\ c.user_agent = HeadersGet(calls[r].request.headers)

\* C9: after any sequence of parse_request_info, extract_client_name and
\* dispatch calls, API_PATTERNS is the table of the source and the client
\* pattern list is the list of the source, and classifying a pair again
\* gives the first result: a direct call with the arguments of the first
\* direct call returns what that call returned, whatever calls were made
\* between them; a dispatch call of a pair a direct call classified writes
\* the line of that call's result, or none when the result is None; the
\* and the client parse_request_info reports is the name
\* extract_client_name returned for the same User-Agent.
C9_IdempotentClassification ==
    /\ API_PATTERNS = API_PATTERNS_TABLE
    /\ client_patterns_local \in {<<>>, client_patterns}
    /\ (ret # NoCall /\ SameArguments(ret, memo)) => ret.out = memo.out
    /\ \A c \in {memo, ret}, r \in Requests :
          (Started(r) /\ SamePair(c, r)) =>
              Lines(calls[r].effects) =
                  IF c.out.is_none THEN <<>> ELSE << LineOf(c.out) >>
    /\ \A a, b \in {memo, ret} :
          (/\ a.fn = "extract_client_name"
           /\ b.fn = "parse_request_info"
           /\ a.user_agent = b.user_agent
           /\ ~b.out.is_none) => b.out.client = a.out.client

\* C9 witness: the first direct call classified a pair before any dispatch
\* call; a dispatch call of the same pair then wrote its line; and the
\* third direct call, made after that dispatch call with the arguments of
\* the first, has returned a classification.
C9_Witness ==
    /\ ncalls >= 3
    /\ ParseDone
    /\ SameArguments(ret, memo)
    /\ ~ret.out.is_none
    /\ memo.started = {}
    /\ \E r \in ret.started : SamePair(memo, r) /\ LogCount(r) = 1
    /\ client_patterns_local = client_patterns

----------------------------------------------------------------------------
(* C10 *)

RECURSIVE TotalLogCount(_)
TotalLogCount(S) ==
    IF S = {} THEN 0
    ELSE LET r == CHOOSE x \in S : TRUE
         IN  LogCount(r) + TotalLogCount(S \ {r})

\* C10: under any interleaving of dispatch calls, a request's line is
\* written before that request is forwarded, by one log.info call, and is
\* decided by the request's own path and User-Agent: the line is the one
\* the request's own path and header give, and two calls with the same
\* path and header write the same line, whatever else is in flight,
\* and the sink holds whole lines of the calls, one per log.info call.
C10_LogBeforeForwardPerRequest ==
    /\ \A r \in Requests :
          LET e == calls[r].effects
          IN  /\ LogCount(r) <= 1
              /\ \A i, j \in 1..Len(e) : (IsLog(e[i]) /\ IsForward(e[j])) => i < j
              /\ (calls[r].pc \in {"awaiting", "returned"}
                    /\ calls[r].request.path \in DispatchMatched) => LogCount(r) = 1
              /\ LogCount(r) = 1 =>
                    Lines(e)[1] = ClaimedLine(calls[r].request)
    /\ \A r1, r2 \in Requests :
          calls[r1].request = calls[r2].request
              => Lines(calls[r1].effects) = Lines(calls[r2].effects)
    /\ Len(log_sink) = TotalLogCount(Requests)
    /\ \A k \in 1..Len(log_sink) :
          \E r \in Requests : Lines(calls[r].effects) = << log_sink[k] >>
    /\ API_PATTERNS = API_PATTERNS_TABLE

\* C10 witness: two requests are in flight together, both logged and
\* forwarded, and the line of the second request reached the sink first.
C10_Witness ==
    /\ calls[1].pc = "awaiting" /\ calls[2].pc = "awaiting"
    /\ LogCount(1) = 1 /\ LogCount(2) = 1
    /\ calls[1].request.path # calls[2].request.path
    /\ log_sink = Lines(calls[2].effects) \o Lines(calls[1].effects)

=============================================================================
